---- MODULE Spec2Model ----
(***************************************************************************)
(* State-machine model of the learn/ package.                              *)
(*                                                                         *)
(* learn/05_api_integration.py: the single fetchers (fetch_book_info_sync, *)
(* fetch_book_info_async, OpenLibraryAPI.get_book_by_isbn), the record     *)
(* parser, the retry wrapper fetch_with_retry and the batch function       *)
(* fetch_multiple_books_async.  learn/01_book_class.py: Book and its dict  *)
(* form.  learn/02_library_class.py: Library, with the repetitions of its  *)
(* add_book in 03_terminal_app.py and 04_testing.py.                       *)
(* learn/06_fastapi_web_service.py: BookStore and the endpoints that       *)
(* change it.                                                              *)
(*                                                                         *)
(* The specifications of the module:                                       *)
(*   SpecRetry    one call of fetch_with_retry against a service that may  *)
(*                answer every attempt in any way;                         *)
(*   SpecBatch    one call of fetch_multiple_books_async against a         *)
(*                synthetic lookup service, the per-key fetches completing *)
(*                in any order;                                            *)
(*   SpecFetch    one call of one single fetcher on one response;          *)
(*   SpecBook     one Book taken to its dict and back;                     *)
(*   SpecLibrary  one Library under add_book, find_book, remove_book and   *)
(*                reopening of its file;                                   *)
(*   SpecLoop     a fetch_with_retry task and a fetch_book_info_async call *)
(*                on one event loop;                                       *)
(*   SpecStore    one BookStore under the requests that add, update and    *)
(*                delete books.                                            *)
(***************************************************************************)
EXTENDS Integers, Sequences, FiniteSets, TLC

VARIABLES
    \* fetch_with_retry
    isbn,          \* parameter isbn
    max_retries,   \* parameter max_retries
    delay,         \* parameter / local delay (doubled after each sleep)
    attempt,       \* loop variable of `for attempt in range(max_retries)`
    pc,            \* "idle", "loop", "get", "sleep", "done", "cancelled"
    retval,        \* the value returned
    delay0,        \* history: the delay the call was given
    calls,         \* history: one entry per attempt that ended
    sleeps,        \* history: one entry per asyncio.sleep
    open_sessions, \* the sessions the call has opened and not closed
    opened,        \* history: the number of sessions the call has opened
    loop_holder,   \* the task that occupies the event loop: "none", "retry", "fetch"
    \* fetch_multiple_books_async
    isbns,         \* parameter isbns
    service,       \* the lookup service: per key, its answer and its outage
    served,        \* per key, the requests the service has answered
    results,       \* the list asyncio.gather fills
    fetched,       \* history: per task, the response it met and how it ended
    completed,     \* history: task indices in completion order
    books,         \* the list returned
    bpc,           \* "idle", "gather", "done"
    \* one call of a single fetcher
    fn,            \* "none", "async_open", "sync", "async", "api"
    fn_isbn,       \* its argument
    fn_response,   \* what the transport does with its request
    fn_out,        \* how the call ended: a returned value or a raised exception
    fn_sessions,   \* the clients the call has opened and not closed
    fn_while,      \* history: where fetch_with_retry was when the call returned
    \* one Book taken to a dict and back
    bk_book,       \* the Book object
    bk_dict,       \* bk_book.to_dict()
    bk_copy,       \* Book.from_dict(bk_dict)
    bk_again,      \* bk_copy.to_dict()
    bk_pc,         \* "idle", "new", "dict", "copy", "again"
    \* one Library
    lib_class,     \* the file that defines the class: "02", "03", "04", or "none"
    lib_books,     \* self.books
    lib_file,      \* the JSON file self.filename names
    lib_last,      \* history: the last call, its argument and what it returned
    lib_prev,      \* history: self.books before the last call
    lib_stored,    \* history: the books added and not removed since
    \* the BookStore of the web service
    st_books,      \* self.books
    next_id,       \* self.next_id
    st_last,       \* history: the last request and how it ended
    st_prev,       \* history: self.books before the last request
    st_prev_next,  \* history: self.next_id before the last request
    st_freed       \* history: the ids of the books deleted so far

retryVars ==
    <<isbn, max_retries, delay, attempt, pc, retval, delay0, calls, sleeps,
      open_sessions, opened, loop_holder>>
batchVars == <<isbns, service, served, results, fetched, completed, books, bpc>>
fetchVars == <<fn, fn_isbn, fn_response, fn_out, fn_sessions, fn_while>>
bookVars == <<bk_book, bk_dict, bk_copy, bk_again, bk_pc>>
libVars == <<lib_class, lib_books, lib_file, lib_last, lib_prev, lib_stored>>
storeVars == <<st_books, next_id, st_last, st_prev, st_prev_next, st_freed>>
vars == <<retryVars, batchVars, fetchVars, bookVars, libVars, storeVars>>

-----------------------------------------------------------------------------
(* Bounds of the model *)

MaxRetries == 3     \* max_retries ranges over 0..MaxRetries
MaxDelay == 2       \* delay ranges over 1..MaxDelay
MaxBatch == 3       \* isbns has at most MaxBatch elements
MaxDown == 1        \* a key's first 0..MaxDown requests time out
MaxBooks == 4       \* add_book is called while the library holds fewer books
MaxId == 3          \* BookStore.add_book is called while next_id <= MaxId

-----------------------------------------------------------------------------
(* Python values.  A value is a record with a tag; None and a dict differ   *)
(* in their tag, an exception object kept by gather has tag "Exception".    *)

None == [tag |-> "None"]

PyException(name) == [tag |-> "Exception", exc |-> name]

\* bool(v) as `if result:` takes it: None is false, a dict with keys is true
Truthy(v) == v.tag # "None"

\* How an evaluation ends: it returns a value or it raises
Return(v) == [raised |-> FALSE, exc |-> "", value |-> v]
Raise(e) == [raised |-> TRUE, exc |-> e, value |-> None]

\* dict.get(key, default): the marker of a key the dict does not hold
Missing == "<missing>"

\* dict[key] read as if the key were always there: no default
GetNoDefault(v, default) == v

Get(v, default) == IF v = Missing THEN default ELSE v

-----------------------------------------------------------------------------
(* The lookup service's data: keys, record fragments, responses *)

Keys == {"978-1593276034", "978-0134685991"}

\* A key whose formatting into the URL raises (the f-string of line 93 is
\* outside the try): the one way an exception leaves fetch_book_info_async
BadKey == "<unformattable>"

\* one element of an authors / publishers list
Named(name) == [is_mapping |-> TRUE, name |-> name]
Nameless == [is_mapping |-> TRUE, name |-> Missing]
NotAMapping == [is_mapping |-> FALSE, name |-> Missing]

Items == {Named("Frank Herbert"), Nameless, NotAMapping}

\* A record fragment data["ISBN:<key>"].  has_authors / has_publishers tell
\* whether the key is in the dict; a fragment that is no mapping has none.
\* Field values are passed through unread, so a page count is kept as text.
Fragment(title, has_authors, authors, has_publishers, publishers, date, pages) ==
    [is_mapping |-> TRUE, title |-> title,
     has_authors |-> has_authors, authors |-> authors,
     has_publishers |-> has_publishers, publishers |-> publishers,
     publish_date |-> date, number_of_pages |-> pages]

NotAFragment ==
    [is_mapping |-> FALSE, title |-> Missing,
     has_authors |-> FALSE, authors |-> <<>>,
     has_publishers |-> FALSE, publishers |-> <<>>,
     publish_date |-> Missing, number_of_pages |-> Missing]

ItemLists == {<<>>} \cup {<<i>> : i \in Items}

Fragments ==
    {NotAFragment} \cup
    {Fragment(t, ha, IF ha THEN a ELSE <<>>, hp, IF hp THEN p ELSE <<>>, d, n) :
        t \in {Missing, "Dune"}, ha \in BOOLEAN, a \in ItemLists,
        hp \in BOOLEAN, p \in ItemLists,
        d \in {Missing, "1965"}, n \in {Missing, "412"}}

DuneFragment ==
    Fragment("Dune", TRUE, <<Named("Frank Herbert")>>, FALSE, <<>>, "1965", Missing)

TitleOnlyFragment ==
    Fragment("Dune", FALSE, <<>>, FALSE, <<>>, Missing, Missing)

\* What the transport does with one request
Timeout ==
    [kind |-> "timeout", status |-> 0, decodable |-> FALSE, has_key |-> FALSE,
     entry |-> NotAFragment]
ConnectError ==
    [kind |-> "connect_error", status |-> 0, decodable |-> FALSE, has_key |-> FALSE,
     entry |-> NotAFragment]
HttpStatus(status) ==
    [kind |-> "http", status |-> status, decodable |-> FALSE, has_key |-> FALSE,
     entry |-> NotAFragment]
Undecodable ==
    [kind |-> "http", status |-> 200, decodable |-> FALSE, has_key |-> FALSE,
     entry |-> NotAFragment]
KeyAbsent ==
    [kind |-> "http", status |-> 200, decodable |-> TRUE, has_key |-> FALSE,
     entry |-> NotAFragment]
KeyPresent(entry) ==
    [kind |-> "http", status |-> 200, decodable |-> TRUE, has_key |-> TRUE,
     entry |-> entry]

ErrorStatuses == {404, 500}

\* every response, for one call of a single fetcher
Responses ==
    {Timeout, ConnectError, Undecodable, KeyAbsent}
        \cup {HttpStatus(s) : s \in ErrorStatuses}
        \cup {KeyPresent(e) : e \in Fragments}

\* the responses an attempt of fetch_with_retry may meet: one of each class
RetryResponses ==
    {Timeout, ConnectError, HttpStatus(404), HttpStatus(500), Undecodable, KeyAbsent,
     KeyPresent(NotAFragment), KeyPresent(DuneFragment), KeyPresent(TitleOnlyFragment)}

\* The class of a response, in the words of the error taxonomy
Classify(r) ==
    CASE r.kind = "timeout" -> "TimeoutError"
      [] r.kind = "connect_error" -> "NetworkError"
      [] r.kind = "http" /\ r.status # 200 -> "HttpError"
      [] r.kind = "http" /\ r.status = 200 /\ ~r.decodable -> "DecodeError"
      [] r.kind = "http" /\ r.status = 200 /\ r.decodable /\ ~r.has_key -> "NotFound"
      [] OTHER -> "Present"

IsFailureResponse(r) ==
    Classify(r) \in {"TimeoutError", "NetworkError", "HttpError", "DecodeError"}

-----------------------------------------------------------------------------
(* The record parser and the single fetchers, as functions of the response *)

\* The defaults of the parser (the source's strings, in ASCII)
DefaultTitle == "Bilinmeyen Baslik"
DefaultAuthor == "Bilinmeyen Yazar"
DefaultPublisher == "Bilinmeyen Yayinevi"
DefaultDate == "Bilinmeyen Tarih"
DefaultPages == "Bilinmeyen Sayfa"

\* authors[0].get('name', default) if authors else default
FirstName(items, default) ==
    IF items = <<>> THEN Return(default)
    ELSE IF ~items[1].is_mapping THEN Raise("AttributeError")
    ELSE Return(Get(items[1].name, default))

\* the lines both fetch_book_info_sync and fetch_book_info_async run on data[isbn_key]
ExtractBookInfo(book_data, key) ==
    IF ~book_data.is_mapping THEN Raise("AttributeError")
    ELSE LET author == FirstName(book_data.authors, DefaultAuthor)
         IN  IF author.raised THEN author
             ELSE Return([tag |-> "dict",
                          title |-> Get(book_data.title, DefaultTitle),
                          author |-> author.value,
                          isbn |-> key,
                          raw_data |-> book_data])

\* a parser that takes the record's 'isbn' from the fragment, which has none,
\* instead of from the key asked for
ParseBookDataKeyFromData(book_data, key) ==
    IF ~book_data.is_mapping THEN Raise("AttributeError")
    ELSE Return([tag |-> "dict",
                 title |-> Get(book_data.title, DefaultTitle),
                 author |-> DefaultAuthor,
                 isbn |-> Missing,
                 publisher |-> DefaultPublisher,
                 publish_date |-> Get(book_data.publish_date, DefaultDate),
                 number_of_pages |-> Get(book_data.number_of_pages, DefaultPages),
                 raw_data |-> book_data])

\* OpenLibraryAPI._parse_book_data
ParseBookData(book_data, key) ==
    IF ~book_data.is_mapping THEN Raise("AttributeError")
    ELSE LET author == FirstName(book_data.authors, DefaultAuthor)
             publisher == FirstName(book_data.publishers, DefaultPublisher)
         IN  IF author.raised THEN author
             ELSE IF publisher.raised THEN publisher
             ELSE Return([tag |-> "dict",
                          title |-> Get(book_data.title, DefaultTitle),
                          author |-> author.value,
                          isbn |-> key,
                          publisher |-> publisher.value,
                          publish_date |-> Get(book_data.publish_date, DefaultDate),
                          number_of_pages |->
                              Get(book_data.number_of_pages, DefaultPages),
                          raw_data |-> book_data])

\* httpx.get / client.get / session.get: the exception the transport raises
TransportRaises(r) ==
    CASE r.kind = "timeout" -> Raise("TimeoutException")
      [] r.kind = "connect_error" -> Raise("ConnectError")
      [] OTHER -> Return(None)

\* response.json()
JsonRaises(r) == ~r.decodable

\* The try body of fetch_book_info_sync and of fetch_book_info_async
FetchBody(r, key) ==
    IF TransportRaises(r).raised THEN TransportRaises(r)
    ELSE IF r.status # 200 THEN Return(None)
    ELSE IF JsonRaises(r) THEN Raise("JSONDecodeError")
    ELSE IF ~r.has_key THEN Return(None)
    ELSE ExtractBookInfo(r.entry, key)

\* The names the httpx module defines among those the handlers look up
HttpxNames == {"TimeoutException", "RequestError", "HTTPStatusError", "ConnectError"}

\* The except clauses of fetch_book_info_sync, tried in order on exception e.
\* A clause's class is looked up when the clause is tried: the second clause
\* names httpx.RequestException, which httpx does not define, so trying it
\* raises AttributeError out of the function.
SyncHandlers(e) ==
    IF e = "TimeoutException" THEN Return(None)
    ELSE IF "RequestException" \notin HttpxNames THEN Raise("AttributeError")
    ELSE Return(None)

fetch_book_info_sync(r, key) ==
    LET body == FetchBody(r, key)
    IN  IF body.raised THEN SyncHandlers(body.exc) ELSE body

\* `except Exception` around the whole body
fetch_book_info_async(r, key) ==
    IF key = BadKey THEN Raise("TypeError")
    ELSE LET body == FetchBody(r, key)
         IN  IF body.raised THEN Return(None) ELSE body

\* response.raise_for_status()
RaiseForStatus(r) == r.status < 200 \/ r.status >= 300

\* OpenLibraryAPI.get_book_by_isbn
GetBookByIsbnBody(r, key) ==
    IF TransportRaises(r).raised THEN TransportRaises(r)
    ELSE IF RaiseForStatus(r) THEN Raise("HTTPStatusError")
    ELSE IF JsonRaises(r) THEN Raise("JSONDecodeError")
    ELSE IF ~r.has_key THEN Return(None)
    ELSE ParseBookData(r.entry, key)

get_book_by_isbn(r, key) ==
    LET body == GetBookByIsbnBody(r, key)
    IN  IF body.raised THEN Return(None) ELSE body

-----------------------------------------------------------------------------
(* fetch_with_retry(isbn, max_retries, delay)                               *)
(*                                                                          *)
(* One attempt is one pass of the loop body: OpenLibraryAPI() is entered,   *)
(* which opens a session; get_book_by_isbn is awaited; the context is left, *)
(* which closes the session.  get_book_by_isbn catches every Exception      *)
(* itself, so the handler of line 232 runs only when entering the context   *)
(* raises (httpx.AsyncClient cannot be built).  The one exception that can  *)
(* leave the body of the context is the task's cancellation, which is no    *)
(* Exception and leaves fetch_with_retry.  session.aclose is taken to       *)
(* complete normally.                                                       *)

RetryIdle ==
    /\ isbn = "" /\ max_retries = 0 /\ delay = 0 /\ attempt = 0 /\ pc = "idle"
    /\ retval = None /\ delay0 = 0 /\ calls = <<>> /\ sleeps = <<>>
    /\ open_sessions = 0 /\ opened = 0 /\ loop_holder = "none"

\* the parameter's default
DefaultMaxRetries == 3

\* RangeHasNext with one pass too many
RangeHasNextOffByOne(done, n) == done <= n

\* for attempt in range(max_retries): is there a next value after `done` passes
RangeHasNext(done, n) == done < n

\* a handler that sleeps after every failed pass, the last one too
SleepsAfterEveryPass(a, n) == a < n

\* if attempt < max_retries - 1
SleepsBeforeNext(a, n) == a < n - 1

\* OpenLibraryAPI.__aenter__: self.session = httpx.AsyncClient(...)
AEnter(n) == n + 1

\* an __aexit__ that forgets the session
AExitLeavesOpen(n) == n

\* OpenLibraryAPI.__aexit__: if self.session: await self.session.aclose()
AExit(n) == IF n > 0 THEN n - 1 ELSE n

\* a sleep that does not give up the event loop (time.sleep)
SleepHolderBlocking == "retry"

\* await asyncio.sleep(delay): the task is suspended and the event loop is free
SleepHolder == "none"

\* the event loop can run a step of task t
LoopFree(t) == loop_holder \in {"none", t}

\* async with OpenLibraryAPI() as api: the client is built, the session is open
RetryEnter ==
    /\ pc = "loop"
    /\ RangeHasNext(attempt, max_retries)
    /\ open_sessions' = AEnter(open_sessions)
    /\ opened' = opened + 1
    /\ pc' = "get"
    /\ UNCHANGED <<isbn, max_retries, delay, attempt, retval, delay0, calls, sleeps,
                   loop_holder>>

\* get_book_by_isbn answers, the context is left, `if result: return result`
RetryAttempt(r) ==
    /\ pc = "get"
    /\ open_sessions' = AExit(open_sessions)
    /\ LET result == get_book_by_isbn(r, isbn).value
       IN  /\ calls' = Append(calls, [client |-> TRUE, response |-> r, result |-> result])
           /\ IF Truthy(result)
              THEN /\ pc' = "done"
                   /\ retval' = result
                   /\ attempt' = attempt
              ELSE /\ pc' = "loop"
                   /\ retval' = retval
                   /\ attempt' = attempt + 1
    /\ UNCHANGED <<isbn, max_retries, delay, delay0, sleeps, opened, loop_holder>>

\* the task is cancelled while it awaits get_book_by_isbn: the context is
\* left with CancelledError, which `except Exception` does not catch
RetryCancelled ==
    /\ pc = "get"
    /\ open_sessions' = AExit(open_sessions)
    /\ pc' = "cancelled"
    /\ UNCHANGED <<isbn, max_retries, delay, attempt, retval, delay0, calls, sleeps,
                   opened, loop_holder>>

\* A pass in which __aenter__ raises: no session was opened; the handler
\* prints and, unless this was the last pass, goes to sleep
RetryClientError ==
    /\ pc = "loop"
    /\ RangeHasNext(attempt, max_retries)
    /\ calls' = Append(calls, [client |-> FALSE, response |-> Timeout, result |-> None])
    /\ IF SleepsBeforeNext(attempt, max_retries)
       THEN pc' = "sleep" /\ attempt' = attempt /\ loop_holder' = SleepHolder
       ELSE pc' = "loop" /\ attempt' = attempt + 1 /\ loop_holder' = loop_holder
    /\ UNCHANGED <<isbn, max_retries, delay, retval, delay0, sleeps,
                   open_sessions, opened>>

\* asyncio.sleep(delay) is over and the task runs again; delay *= 2
RetrySleep ==
    /\ pc = "sleep"
    /\ sleeps' = Append(sleeps, [after |-> attempt + 1, seconds |-> delay])
    /\ delay' = delay * 2
    /\ attempt' = attempt + 1
    /\ pc' = "loop"
    /\ loop_holder' = "none"
    /\ UNCHANGED <<isbn, max_retries, retval, delay0, calls, open_sessions, opened>>

\* the loop is over: return None
RetryExhausted ==
    /\ pc = "loop"
    /\ ~RangeHasNext(attempt, max_retries)
    /\ pc' = "done"
    /\ retval' = None
    /\ UNCHANGED <<isbn, max_retries, delay, attempt, delay0, calls, sleeps,
                   open_sessions, opened, loop_holder>>

BatchIdle ==
    /\ isbns = <<>> /\ service = <<>> /\ served = <<>> /\ results = <<>>
    /\ fetched = <<>> /\ completed = <<>> /\ books = <<>> /\ bpc = "idle"

FetchIdle ==
    /\ fn = "none" /\ fn_isbn = "" /\ fn_response = Timeout /\ fn_out = Return(None)
    /\ fn_sessions = 0 /\ fn_while = "idle"

BookIdle ==
    /\ bk_book = None /\ bk_dict = None /\ bk_copy = None /\ bk_again = None
    /\ bk_pc = "idle"

\* the JSON file: whether it exists and the list it holds
NoFile == [exists |-> FALSE, data |-> <<>>]

\* no call yet
NoCall == [op |-> "none", arg |-> None, ret |-> None]

LibraryIdle ==
    /\ lib_class = "none" /\ lib_books = <<>> /\ lib_file = NoFile
    /\ lib_last = NoCall /\ lib_prev = <<>> /\ lib_stored = {}

\* no request yet
NoRequest == [op |-> "none"]

StoreIdle ==
    /\ st_books = <<>> /\ next_id = 0 /\ st_last = NoRequest
    /\ st_prev = <<>> /\ st_prev_next = 0 /\ st_freed = {}

InitRetry ==
    /\ isbn \in Keys
    /\ max_retries \in 0..MaxRetries
    /\ delay \in 1..MaxDelay
    /\ delay0 = delay
    /\ attempt = 0
    /\ pc = "loop"
    /\ retval = None
    /\ calls = <<>>
    /\ sleeps = <<>>
    /\ open_sessions = 0
    /\ opened = 0
    /\ loop_holder = "none"
    /\ BatchIdle
    /\ FetchIdle
    /\ BookIdle
    /\ LibraryIdle
    /\ StoreIdle

NextRetry ==
    \/ RetryEnter /\ UNCHANGED <<batchVars, fetchVars, bookVars, libVars, storeVars>>
    \/ \E r \in RetryResponses : RetryAttempt(r) /\ UNCHANGED <<batchVars, fetchVars, bookVars, libVars, storeVars>>
    \/ RetryCancelled /\ UNCHANGED <<batchVars, fetchVars, bookVars, libVars, storeVars>>
    \/ RetryClientError /\ UNCHANGED <<batchVars, fetchVars, bookVars, libVars, storeVars>>
    \/ RetrySleep /\ UNCHANGED <<batchVars, fetchVars, bookVars, libVars, storeVars>>
    \/ RetryExhausted /\ UNCHANGED <<batchVars, fetchVars, bookVars, libVars, storeVars>>

SpecRetry == InitRetry /\ [][NextRetry]_vars

-----------------------------------------------------------------------------
(* Properties of fetch_with_retry, checked under SpecRetry *)

RECURSIVE Pow2(_)
Pow2(n) == IF n <= 0 THEN 1 ELSE 2 * Pow2(n - 1)

\* attempt n reached the service and the service's answer was of class c
AnsweredWith(n, c) == calls[n].client /\ Classify(calls[n].response) = c

\* attempt n reached the service and ended in a failure of the taxonomy
FailedAttempt(n) == calls[n].client /\ IsFailureResponse(calls[n].response)

\* attempt n got a response holding the key with a fragment the parser accepts
SuccessfulAttempt(n) ==
    /\ AnsweredWith(n, "Present")
    /\ ~ParseBookData(calls[n].response.entry, isbn).raised

\* C1: when the service answers that the key is absent, fetch_with_retry makes
\* no further attempt: an attempt answered NotFound is the last one.
C1_NotFoundIsTerminal ==
    \A n \in 1..Len(calls) : AnsweredWith(n, "NotFound") => Len(calls) = n

\* C2: when all max_retries attempts fail, the value returned differs from the
\* value returned for a key that is confirmed absent, and is no success record.
C2_ExhaustedIsDistinctFailure ==
    (/\ pc = "done"
     /\ max_retries >= 1
     /\ Len(calls) = max_retries
     /\ \A n \in 1..Len(calls) : FailedAttempt(n))
        => /\ retval # get_book_by_isbn(KeyAbsent, isbn).value
           /\ retval.tag # "dict"

\* C3: the fetcher is invoked at most max_retries times, and an attempt that
\* yields a record is the last one and its record is the value returned.
C3_AtMostMaxRetries ==
    /\ Len(calls) <= max_retries
    /\ \A n \in 1..Len(calls) :
          SuccessfulAttempt(n) =>
              /\ n = Len(calls)
              /\ pc = "done"
              /\ retval = ParseBookData(calls[n].response.entry, isbn).value
              /\ retval.isbn = isbn

\* C3's case: the last permitted attempt, after earlier ones failed, yields the record
C3_Witness ==
    /\ pc = "done"
    /\ max_retries >= 2
    /\ Len(calls) = max_retries
    /\ \A n \in 1..(Len(calls) - 1) : FailedAttempt(n)
    /\ SuccessfulAttempt(Len(calls))
    /\ retval.tag = "dict"

\* C4: after every failed attempt n that is followed by another attempt, a
\* sleep of delay0 * 2^(n-1) was made before attempt n+1.
C4_BackoffAfterEveryFailure ==
    \A n \in 1..(Len(calls) - 1) :
        FailedAttempt(n) =>
            \E k \in 1..Len(sleeps) :
                /\ sleeps[k].after = n
                /\ sleeps[k].seconds = delay0 * Pow2(n - 1)

-----------------------------------------------------------------------------
(* fetch_multiple_books_async(isbns)                                        *)
(*                                                                          *)
(* One coroutine fetch_book_info_async(isbn) per element of isbns, run by   *)
(* asyncio.gather with return_exceptions=True: the coroutines finish in     *)
(* any order, gather puts each one's result (or the exception it raised) at *)
(* the coroutine's own position, and the loop of lines 145-150 keeps the    *)
(* truthy results that are no exceptions.                                   *)
(*                                                                          *)
(* The lookup service is synthetic: for each key, its first `down` requests *)
(* time out and every later one gets `answer`.                              *)

ServiceAnswers == {KeyAbsent, KeyPresent(DuneFragment), KeyPresent(NotAFragment)}

Services == [Keys -> [down : 0..MaxDown, answer : ServiceAnswers]]

\* the service's response to the next request for key k
Respond(k) == IF served[k] < service[k].down THEN Timeout ELSE service[k].answer

\* a slot of results no coroutine has filled yet
Pending == [tag |-> "pending"]

BatchInputs == UNION {[1..n -> Keys \cup {BadKey}] : n \in 0..MaxBatch}

\* gather with the results in the order the coroutines finish
GatherSlotByCompletion(i, done) == Len(done) + 1

\* asyncio.gather: coroutine i's result goes to position i of the result list
GatherSlot(i, done) == i

\* what gather stores for a coroutine that ended as `out`
Gathered(out) == IF out.raised THEN PyException(out.exc) ELSE out.value

\* coroutine i runs to its end: one request, one response
TaskCompletes(i) ==
    /\ bpc = "gather"
    /\ i \in 1..Len(isbns)
    /\ fetched[i] = Pending
    /\ isbns[i] \in Keys
    /\ LET r == Respond(isbns[i])
           out == fetch_book_info_async(r, isbns[i])
       IN  /\ results' = [results EXCEPT ![GatherSlot(i, completed)] = Gathered(out)]
           /\ fetched' = [fetched EXCEPT ![i] =
                             [tag |-> "fetched", response |-> r, out |-> out]]
    /\ served' = [served EXCEPT ![isbns[i]] = @ + 1]
    /\ completed' = Append(completed, i)
    /\ UNCHANGED <<isbns, service, books, bpc>>

\* coroutine i raises before its try statement: no request is made
TaskRaises(i) ==
    /\ bpc = "gather"
    /\ i \in 1..Len(isbns)
    /\ fetched[i] = Pending
    /\ isbns[i] = BadKey
    /\ LET out == fetch_book_info_async(Timeout, isbns[i])
       IN  /\ results' = [results EXCEPT ![GatherSlot(i, completed)] = Gathered(out)]
           /\ fetched' = [fetched EXCEPT ![i] =
                             [tag |-> "raised", response |-> Timeout, out |-> out]]
    /\ completed' = Append(completed, i)
    /\ UNCHANGED <<isbns, service, served, books, bpc>>

\* for i, result in enumerate(results): ... books.append(result)
RECURSIVE CollectBooks(_, _)
CollectBooks(rs, i) ==
    IF i > Len(rs) THEN <<>>
    ELSE IF rs[i].tag = "Exception" THEN CollectBooks(rs, i + 1)
    ELSE IF Truthy(rs[i]) THEN <<rs[i]>> \o CollectBooks(rs, i + 1)
    ELSE CollectBooks(rs, i + 1)

\* a gather that returns only once some coroutine has completed: with no
\* coroutine at all it never returns
BatchCollectNeedsTask ==
    /\ bpc = "gather"
    /\ Len(completed) = Len(isbns)
    /\ Len(completed) > 0
    /\ books' = CollectBooks(results, 1)
    /\ bpc' = "done"
    /\ UNCHANGED <<isbns, service, served, results, fetched, completed>>

\* gather returns when every coroutine is done; the loop builds books
BatchCollect ==
    /\ bpc = "gather"
    /\ Len(completed) = Len(isbns)
    /\ books' = CollectBooks(results, 1)
    /\ bpc' = "done"
    /\ UNCHANGED <<isbns, service, served, results, fetched, completed>>

InitBatch ==
    /\ isbns \in BatchInputs
    /\ service \in Services
    /\ served = [k \in Keys |-> 0]
    /\ results = [i \in 1..Len(isbns) |-> Pending]
    /\ fetched = [i \in 1..Len(isbns) |-> Pending]
    /\ completed = <<>>
    /\ books = <<>>
    /\ bpc = "gather"
    /\ RetryIdle
    /\ FetchIdle
    /\ BookIdle
    /\ LibraryIdle
    /\ StoreIdle

NextBatch ==
    \/ \E i \in 1..Len(isbns) : TaskCompletes(i) /\ UNCHANGED <<retryVars, fetchVars, bookVars, libVars, storeVars>>
    \/ \E i \in 1..Len(isbns) : TaskRaises(i) /\ UNCHANGED <<retryVars, fetchVars, bookVars, libVars, storeVars>>
    \/ BatchCollect /\ UNCHANGED <<retryVars, fetchVars, bookVars, libVars, storeVars>>

SpecBatch == InitBatch /\ [][NextBatch]_vars

-----------------------------------------------------------------------------
(* Properties of fetch_multiple_books_async, checked under SpecBatch *)

\* coroutine i returned a record
TaskSucceeded(i) ==
    /\ fetched[i].tag = "fetched"
    /\ ~fetched[i].out.raised
    /\ fetched[i].out.value.tag = "dict"

\* coroutine i raised, or its request failed or brought a malformed fragment
TaskFaulted(i) ==
    \/ fetched[i].tag = "raised"
    \/ /\ fetched[i].tag = "fetched"
       /\ \/ IsFailureResponse(fetched[i].response)
          \/ /\ Classify(fetched[i].response) = "Present"
             /\ ExtractBookInfo(fetched[i].response.entry, isbns[i]).raised

StrictlyIncreasing(f) ==
    \A a, b \in DOMAIN f : a < b => f[a] < f[b]

\* C5: the result holds exactly one outcome per input key: it is as long as
\* isbns, failed and not-found keys included.
C5_OneOutcomePerKey ==
    bpc = "done" => Len(books) = Len(isbns)

\* C6: the returned outcomes are in the relative order of their keys in isbns,
\* whatever the order in which the fetches complete: the result is the list
\* of what the coroutines of increasing positions returned.
C6_InputOrder ==
    bpc = "done" =>
        \E f \in [1..Len(books) -> 1..Len(isbns)] :
            /\ StrictlyIncreasing(f)
            /\ \A j \in 1..Len(books) :
                  /\ ~fetched[f[j]].out.raised
                  /\ books[j] = fetched[f[j]].out.value
                  /\ books[j].tag = "dict"
                  /\ books[j].isbn = isbns[f[j]]

\* C6's case: two fetches for different keys complete in the order opposite
\* to their positions and both are in the result
C6_Witness ==
    /\ bpc = "done"
    /\ Len(books) >= 2
    /\ \E a, b \in 1..Len(completed) :
          /\ a < b
          /\ completed[a] > completed[b]
          /\ isbns[completed[a]] # isbns[completed[b]]
          /\ TaskSucceeded(completed[a])
          /\ TaskSucceeded(completed[b])

\* C7: a fault in one key's fetch leaves the other keys' outcomes alone (every
\* key fetched with success has its record in the result) and is recorded in
\* the result, in the faulty key's slot, as an outcome that is no success.
C7_FaultIsolatedAndRecorded ==
    bpc = "done" =>
        \A i \in 1..Len(isbns) :
            /\ TaskSucceeded(i) =>
                  \E j \in 1..Len(books) : books[j] = fetched[i].out.value
            /\ TaskFaulted(i) =>
                  /\ Len(books) = Len(isbns)
                  /\ books[i].tag # "dict"

\* C8: each key is fetched through the retry wrapper: a key whose request
\* times out while a later attempt, within the default number of attempts,
\* would be answered with its record is a success in the result.
C8_RetryProtected ==
    bpc = "done" =>
        \A i \in 1..Len(isbns) :
            (/\ fetched[i].tag = "fetched"
             /\ Classify(fetched[i].response) = "TimeoutError"
             /\ service[isbns[i]].down < DefaultMaxRetries
             /\ Classify(service[isbns[i]].answer) = "Present"
             /\ ~ExtractBookInfo(service[isbns[i]].answer.entry, isbns[i]).raised)
                => \E j \in 1..Len(books) :
                       books[j].tag = "dict" /\ books[j].isbn = isbns[i]

-----------------------------------------------------------------------------
(* One call of a single fetcher on one response of the transport *)

\* the fetcher named f applied to response r and key
Fetcher(f, r, key) ==
    CASE f = "sync" -> fetch_book_info_sync(r, key)
      [] f = "async" -> fetch_book_info_async(r, key)
      [] OTHER -> get_book_by_isbn(r, key)

CallSync ==
    /\ fn = "none"
    /\ fn' = "sync"
    /\ fn_out' = Fetcher("sync", fn_response, fn_isbn)
    /\ fn_while' = pc
    /\ UNCHANGED <<fn_isbn, fn_response, fn_sessions>>

\* async with httpx.AsyncClient(timeout=10.0) as client (line 96)
ClientEnter(n) == n + 1

\* leaving that context closes the client
ClientExit(n) == IF n > 0 THEN n - 1 ELSE n

\* fetch_book_info_async up to `await client.get(url)`: the client is open
AsyncEnter ==
    /\ fn = "none"
    /\ fn' = "async_open"
    /\ fn_sessions' = ClientEnter(fn_sessions)
    /\ UNCHANGED <<fn_isbn, fn_response, fn_out, fn_while>>

\* the request is answered, the context is left, the function returns
CallAsync ==
    /\ fn = "async_open"
    /\ fn' = "async"
    /\ fn_out' = Fetcher("async", fn_response, fn_isbn)
    /\ fn_sessions' = ClientExit(fn_sessions)
    /\ fn_while' = pc
    /\ UNCHANGED <<fn_isbn, fn_response>>

CallApi ==
    /\ fn = "none"
    /\ fn' = "api"
    /\ fn_out' = Fetcher("api", fn_response, fn_isbn)
    /\ fn_while' = pc
    /\ UNCHANGED <<fn_isbn, fn_response, fn_sessions>>

InitFetch ==
    /\ fn = "none"
    /\ fn_isbn \in Keys
    /\ fn_response \in Responses
    /\ fn_out = Return(None)
    /\ fn_sessions = 0
    /\ fn_while = "idle"
    /\ RetryIdle
    /\ BatchIdle
    /\ BookIdle
    /\ LibraryIdle
    /\ StoreIdle

NextFetch ==
    \/ CallSync /\ UNCHANGED <<retryVars, batchVars, bookVars, libVars, storeVars>>
    \/ AsyncEnter /\ UNCHANGED <<retryVars, batchVars, bookVars, libVars, storeVars>>
    \/ CallAsync /\ UNCHANGED <<retryVars, batchVars, bookVars, libVars, storeVars>>
    \/ CallApi /\ UNCHANGED <<retryVars, batchVars, bookVars, libVars, storeVars>>

SpecFetch == InitFetch /\ [][NextFetch]_vars

\* C9: no single fetcher lets an exception escape: whatever the transport
\* does, the call ends by returning a value.
C9_NoExceptionEscapes ==
    fn \in {"sync", "async", "api"} => ~fn_out.raised

\* C10: the result for a decodable 200 response that lacks the key differs
\* from the result for a response with an error status.
C10_NotFoundDistinctFromHttpError ==
    (fn \in {"async", "api"} /\ Classify(fn_response) = "NotFound") =>
        \A s \in ErrorStatuses : fn_out # Fetcher(fn, HttpStatus(s), fn_isbn)

-----------------------------------------------------------------------------
(* The parser on present keys (SpecFetch) *)

\* the call of a single fetcher has returned
FetcherDone == fn \in {"sync", "async", "api"}

\* items is empty or its first element is a mapping, so that items[0].get
\* at lines 107 and 196 (and 200 for publishers) does not raise
FirstIsMapping(items) == items = <<>> \/ items[1].is_mapping

\* the fragment e goes through the parsing code of fetcher f without an
\* exception: it is a mapping, and the lists the fetcher reads start with one
ParserAccepts(f, e) ==
    /\ e.is_mapping
    /\ FirstIsMapping(e.authors)
    /\ (f = "api" => FirstIsMapping(e.publishers))

\* the name the code takes from a list of mappings, default when there is none
NameOrDefault(items, default) ==
    IF items = <<>> \/ items[1].name = Missing THEN default ELSE items[1].name

\* C11 (as stated): for a 200 response with a decodable body whose entry for
\* the key is a mapping, the fetch returns a record whose 'isbn' is the key
\* asked for and whose 'raw_data' is the entry.
C11_PresentMappingGivesRecord ==
    (/\ fn \in {"async", "api"}
     /\ Classify(fn_response) = "Present"
     /\ fn_response.entry.is_mapping)
        => /\ ~fn_out.raised
           /\ fn_out.value.tag = "dict"
           /\ fn_out.value.isbn = fn_isbn
           /\ fn_out.value.raw_data = fn_response.entry

\* C11 (amended): the same, for an entry that is a mapping whose 'authors'
\* list (and, for get_book_by_isbn, whose 'publishers' list) is missing,
\* empty or starts with a mapping.
C11_PresentKeyGivesRecord ==
    (/\ FetcherDone
     /\ Classify(fn_response) = "Present"
     /\ ParserAccepts(fn, fn_response.entry))
        => /\ ~fn_out.raised
           /\ fn_out.value.tag = "dict"
           /\ fn_out.value.isbn = fn_isbn
           /\ fn_out.value.raw_data = fn_response.entry

C11_Witness ==
    /\ fn = "api"
    /\ Classify(fn_response) = "Present"
    /\ fn_response.entry = DuneFragment
    /\ fn_out.value.tag = "dict"
    /\ fn_out.value.isbn = fn_isbn

\* C13 (as stated): the parser returns a fully populated record: a fragment
\* with a title and no authors gives that title and the author
\* "unknown author", a fragment without a title gives the title
\* "unknown title".
C13_DefaultsAsWorded ==
    (/\ FetcherDone
     /\ Classify(fn_response) = "Present"
     /\ fn_response.entry.is_mapping
     /\ fn_response.entry.authors = <<>>)
        => /\ ~fn_out.raised
           /\ fn_out.value.tag = "dict"
           /\ fn_out.value.author = "unknown author"
           /\ fn_out.value.title =
                  IF fn_response.entry.title = Missing
                  THEN "unknown title" ELSE fn_response.entry.title

\* every field the fetcher f puts in its record v has a value
FullyPopulated(f, v) ==
    /\ {"title", "author", "isbn", "raw_data"} \subseteq DOMAIN v
    /\ v.title # Missing
    /\ v.author # Missing
    /\ v.isbn # Missing
    /\ (f = "api" =>
           /\ {"publisher", "publish_date", "number_of_pages"} \subseteq DOMAIN v
           /\ v.publisher # Missing
           /\ v.publish_date # Missing
           /\ v.number_of_pages # Missing)

\* C13 (amended): for every fragment the parser accepts, the record is fully
\* populated: the title is the fragment's, or DefaultTitle when it has none;
\* the author is the first author's name, or DefaultAuthor when there is no
\* 'authors' field, an empty list or a first author without a name; no field
\* of the record is absent. The defaults are the code's strings, not
\* "unknown title" and "unknown author".
C13_ParserFillsDefaults ==
    (/\ FetcherDone
     /\ Classify(fn_response) = "Present"
     /\ ParserAccepts(fn, fn_response.entry))
        => /\ ~fn_out.raised
           /\ fn_out.value.tag = "dict"
           /\ FullyPopulated(fn, fn_out.value)
           /\ fn_out.value.title =
                  IF fn_response.entry.title = Missing
                  THEN DefaultTitle ELSE fn_response.entry.title
           /\ fn_out.value.author =
                  NameOrDefault(fn_response.entry.authors, DefaultAuthor)

C13_Witness ==
    /\ fn = "api"
    /\ Classify(fn_response) = "Present"
    /\ fn_response.entry = TitleOnlyFragment
    /\ fn_out.value.tag = "dict"
    /\ fn_out.value.title = TitleOnlyFragment.title
    /\ fn_out.value.author = DefaultAuthor

-----------------------------------------------------------------------------
(* The empty batch (SpecBatch) *)

\* C12: fetch_multiple_books_async([]) completes without error and returns
\* an empty result: with no key there is nothing to wait for, the call can
\* return at once, no task raises, and the list it returns is empty.
C12_EmptyBatchReturnsEmpty ==
    isbns = <<>> =>
        /\ results = <<>>
        /\ completed = <<>>
        /\ (bpc = "gather" => ENABLED BatchCollect)
        /\ (bpc = "done" => books = <<>>)

C12_Witness ==
    /\ isbns = <<>>
    /\ bpc = "done"
    /\ books = <<>>

-----------------------------------------------------------------------------
(* learn/01_book_class.py: Book, to_dict and from_dict.  The same three     *)
(* methods are repeated in 02_library_class.py and 04_testing.py.           *)

\* the strings a field may hold, the empty string among them
TextValues == {"", "Dune", "Frank Herbert", "978-1593276034"}

\* Book.__init__
Book(title, author, isbn_no) ==
    [tag |-> "Book", title |-> title, author |-> author, isbn |-> isbn_no]

Books == {Book(t, a, i) : t \in TextValues, a \in TextValues, i \in TextValues}

\* Book.to_dict: a dict is a function from its keys
to_dict(book) ==
    [title |-> book.title, author |-> book.author, isbn |-> book.isbn]

\* a from_dict that passes the dict's values in the wrong positions
from_dict_swapped(data) == Book(data.author, data.title, data.isbn)

\* Book.from_dict
from_dict(data) == Book(data.title, data.author, data.isbn)

BookToDict ==
    /\ bk_pc = "new"
    /\ bk_dict' = to_dict(bk_book)
    /\ bk_pc' = "dict"
    /\ UNCHANGED <<bk_book, bk_copy, bk_again>>

BookFromDict ==
    /\ bk_pc = "dict"
    /\ bk_copy' = from_dict(bk_dict)
    /\ bk_pc' = "copy"
    /\ UNCHANGED <<bk_book, bk_dict, bk_again>>

BookToDictAgain ==
    /\ bk_pc = "copy"
    /\ bk_again' = to_dict(bk_copy)
    /\ bk_pc' = "again"
    /\ UNCHANGED <<bk_book, bk_dict, bk_copy>>

InitBook ==
    /\ bk_book \in Books
    /\ bk_dict = None
    /\ bk_copy = None
    /\ bk_again = None
    /\ bk_pc = "new"
    /\ RetryIdle
    /\ BatchIdle
    /\ FetchIdle
    /\ LibraryIdle
    /\ StoreIdle

NextBook ==
    \/ BookToDict /\ UNCHANGED <<retryVars, batchVars, fetchVars, libVars, storeVars>>
    \/ BookFromDict /\ UNCHANGED <<retryVars, batchVars, fetchVars, libVars, storeVars>>
    \/ BookToDictAgain /\ UNCHANGED <<retryVars, batchVars, fetchVars, libVars, storeVars>>

SpecBook == InitBook /\ [][NextBook]_vars

\* the three fields of two objects or dicts agree
SameFields(x, y) ==
    /\ x.title = y.title
    /\ x.author = y.author
    /\ x.isbn = y.isbn

\* C17: to_dict and from_dict are inverse on the three fields: to_dict
\* returns exactly the keys 'title', 'author', 'isbn' with the book's values,
\* from_dict of that dict is a book with the same title, author and isbn, and
\* its to_dict is the same dict again; empty strings included.
C17_DictRoundTrip ==
    /\ bk_pc \in {"dict", "copy", "again"} =>
           /\ DOMAIN bk_dict = {"title", "author", "isbn"}
           /\ SameFields(bk_dict, bk_book)
    /\ bk_pc \in {"copy", "again"} =>
           /\ bk_copy.tag = "Book"
           /\ SameFields(bk_copy, bk_book)
    /\ bk_pc = "again" => bk_again = bk_dict

C17_Witness ==
    /\ bk_pc = "again"
    /\ bk_book = Book("", "Frank Herbert", "")
    /\ bk_copy.title = "" /\ bk_copy.author = "Frank Herbert" /\ bk_copy.isbn = ""

-----------------------------------------------------------------------------
(* The Library class of learn/02_library_class.py, with its repetitions in  *)
(* 03_terminal_app.py (add_book only, no file) and 04_testing.py (add_book, *)
(* find_book, save and load).  A library starts empty, on a file name that  *)
(* does not exist yet; writing the file is taken to succeed.  A book is its *)
(* three fields: the code never compares Book objects except through        *)
(* list.remove, which is given the very object find_book returned.          *)

LibIsbns == Keys \cup {""}

\* the books a caller adds: two titles for every ISBN
LibBooks == {Book(t, "Frank Herbert", i) : t \in {"Dune", "Children of Dune"}, i \in LibIsbns}

\* a find_book whose loop misses the first book
find_book_skips_first(bks, isbn_no) ==
    IF \E i \in 2..Len(bks) : bks[i].isbn = isbn_no
    THEN bks[CHOOSE i \in 2..Len(bks) :
                 /\ bks[i].isbn = isbn_no
                 /\ \A j \in 2..(i - 1) : bks[j].isbn # isbn_no]
    ELSE None

\* Library.find_book: the first book with that ISBN, or None
find_book(bks, isbn_no) ==
    IF \E i \in 1..Len(bks) : bks[i].isbn = isbn_no
    THEN bks[CHOOSE i \in 1..Len(bks) :
                 /\ bks[i].isbn = isbn_no
                 /\ \A j \in 1..(i - 1) : bks[j].isbn # isbn_no]
    ELSE None

\* What a call does: the value returned, self.books after it, and whether
\* save_books ran.

\* an add_book without the ISBN test
add_book_unchecked(bks, book) ==
    [ret |-> TRUE, books |-> Append(bks, book), saves |-> TRUE]

\* Library.add_book of 02_library_class.py
add_book(bks, book) ==
    IF Truthy(find_book(bks, book.isbn))
    THEN [ret |-> FALSE, books |-> bks, saves |-> FALSE]
    ELSE [ret |-> TRUE, books |-> Append(bks, book), saves |-> TRUE]

\* an add_book that puts the new book first
add_book_in_front(bks, book) ==
    IF \E i \in 1..Len(bks) : bks[i].isbn = book.isbn
    THEN [ret |-> FALSE, books |-> bks, saves |-> FALSE]
    ELSE [ret |-> TRUE, books |-> <<book>> \o bks, saves |-> FALSE]

\* Library.add_book of 03_terminal_app.py
add_book_03(bks, book) ==
    IF ~(\E i \in 1..Len(bks) : bks[i].isbn = book.isbn)
    THEN [ret |-> TRUE, books |-> Append(bks, book), saves |-> FALSE]
    ELSE [ret |-> FALSE, books |-> bks, saves |-> FALSE]

\* Library.add_book of 04_testing.py
add_book_04(bks, book) ==
    IF Truthy(find_book(bks, book.isbn))
    THEN [ret |-> FALSE, books |-> bks, saves |-> FALSE]
    ELSE [ret |-> TRUE, books |-> Append(bks, book), saves |-> TRUE]

\* list.remove(x): the list without its first element equal to x
ListRemove(bks, x) ==
    LET i == CHOOSE k \in 1..Len(bks) :
                 bks[k] = x /\ \A j \in 1..(k - 1) : bks[j] # x
    IN  SubSeq(bks, 1, i - 1) \o SubSeq(bks, i + 1, Len(bks))

\* Library.remove_book
remove_book(bks, isbn_no) ==
    LET book == find_book(bks, isbn_no)
    IN  IF Truthy(book)
        THEN [ret |-> TRUE, books |-> ListRemove(bks, book), saves |-> TRUE]
        ELSE [ret |-> FALSE, books |-> bks, saves |-> FALSE]

\* Library.save_books: the file holds the books' dicts
save_books(bks) ==
    [exists |-> TRUE, data |-> [i \in 1..Len(bks) |-> to_dict(bks[i])]]

\* Library.load_books: the books of the file, if there is one
load_books(bks, file) ==
    IF file.exists
    THEN [i \in 1..Len(file.data) |-> from_dict(file.data[i])]
    ELSE bks

\* add_book of the class in use
AddBook(class, bks, book) ==
    CASE class = "02" -> add_book(bks, book)
      [] class = "03" -> add_book_03(bks, book)
      [] OTHER -> add_book_04(bks, book)

LibAdd(book) ==
    /\ lib_class \in {"02", "03", "04"}
    /\ Len(lib_books) < MaxBooks
    /\ LET r == AddBook(lib_class, lib_books, book)
       IN  /\ lib_books' = r.books
           /\ lib_file' = IF r.saves THEN save_books(r.books) ELSE lib_file
           /\ lib_last' = [op |-> "add", arg |-> book, ret |-> r.ret]
           /\ lib_stored' = IF r.ret THEN lib_stored \cup {book} ELSE lib_stored
    /\ lib_prev' = lib_books
    /\ UNCHANGED lib_class

LibFind(isbn_no) ==
    /\ lib_class \in {"02", "04"}
    /\ lib_last' = [op |-> "find", arg |-> isbn_no, ret |-> find_book(lib_books, isbn_no)]
    /\ lib_prev' = lib_books
    /\ UNCHANGED <<lib_class, lib_books, lib_file, lib_stored>>

LibRemove(isbn_no) ==
    /\ lib_class = "02"
    /\ LET r == remove_book(lib_books, isbn_no)
       IN  /\ lib_books' = r.books
           /\ lib_file' = IF r.saves THEN save_books(r.books) ELSE lib_file
           /\ lib_last' = [op |-> "remove", arg |-> isbn_no, ret |-> r.ret]
           /\ lib_stored' = IF r.ret
                            THEN {b \in lib_stored : b.isbn # isbn_no}
                            ELSE lib_stored
    /\ lib_prev' = lib_books
    /\ UNCHANGED lib_class

\* the program is started again: Library.__init__ on the same file name
LibReopen ==
    /\ lib_class \in {"02", "04"}
    /\ lib_books' = load_books(<<>>, lib_file)
    /\ lib_last' = [op |-> "open", arg |-> None, ret |-> None]
    /\ lib_prev' = lib_books
    /\ UNCHANGED <<lib_class, lib_file, lib_stored>>

InitLibrary ==
    /\ lib_class \in {"02", "03", "04"}
    /\ lib_books = <<>>
    /\ lib_file = NoFile
    /\ lib_last = NoCall
    /\ lib_prev = <<>>
    /\ lib_stored = {}
    /\ RetryIdle
    /\ BatchIdle
    /\ FetchIdle
    /\ BookIdle
    /\ StoreIdle

NextLibrary ==
    \/ \E b \in LibBooks : LibAdd(b) /\ UNCHANGED <<retryVars, batchVars, fetchVars, bookVars, storeVars>>
    \/ \E k \in LibIsbns : LibFind(k) /\ UNCHANGED <<retryVars, batchVars, fetchVars, bookVars, storeVars>>
    \/ \E k \in LibIsbns : LibRemove(k) /\ UNCHANGED <<retryVars, batchVars, fetchVars, bookVars, storeVars>>
    \/ LibReopen /\ UNCHANGED <<retryVars, batchVars, fetchVars, bookVars, storeVars>>

SpecLibrary == InitLibrary /\ [][NextLibrary]_vars

\* the ISBNs of a list of books
IsbnsOf(bks) == {bks[i].isbn : i \in 1..Len(bks)}

UniqueIsbns(bks) ==
    \A i, j \in 1..Len(bks) : bks[i].isbn = bks[j].isbn => i = j

\* C14: add_book with a book whose ISBN is already in the library returns
\* False and leaves the list of books as it was; no two books of the library
\* ever share an ISBN.
C14_DuplicateIsbnRejected ==
    /\ (lib_last.op = "add" /\ lib_last.arg.isbn \in IsbnsOf(lib_prev)) =>
           /\ lib_last.ret = FALSE
           /\ lib_books = lib_prev
    /\ UniqueIsbns(lib_books)

C14_Witness ==
    /\ lib_last.op = "add"
    /\ lib_last.arg.isbn \in IsbnsOf(lib_prev)
    /\ lib_last.arg \notin {lib_prev[i] : i \in 1..Len(lib_prev)}
    /\ lib_last.ret = FALSE
    /\ Len(lib_books) = 2

\* C15: add_book with a book whose ISBN is not yet in the library returns
\* True, and the list of books afterwards is the list before with that book
\* appended: one book more, the new book last, the others in their order.
C15_NewIsbnAppended ==
    (lib_last.op = "add" /\ lib_last.arg.isbn \notin IsbnsOf(lib_prev)) =>
        /\ lib_last.ret = TRUE
        /\ Len(lib_books) = Len(lib_prev) + 1
        /\ lib_books[Len(lib_books)] = lib_last.arg
        /\ SubSeq(lib_books, 1, Len(lib_prev)) = lib_prev

C15_Witness ==
    /\ lib_last.op = "add"
    /\ lib_last.ret = TRUE
    /\ Len(lib_prev) = 2
    /\ lib_books = Append(lib_prev, lib_last.arg)

\* C16: find_book(isbn) returns the stored book with that ISBN when one was
\* added and not removed since, None when there is none, and leaves the
\* library as it was.
C16_FindBook ==
    lib_last.op = "find" =>
        /\ lib_books = lib_prev
        /\ IF \E b \in lib_stored : b.isbn = lib_last.arg
           THEN /\ lib_last.ret \in lib_stored
                /\ lib_last.ret.isbn = lib_last.arg
           ELSE lib_last.ret = None

C16_Witness ==
    /\ lib_last.op = "find"
    /\ Len(lib_books) = 2
    /\ lib_last.ret = lib_books[2]
    /\ lib_last.ret \in lib_stored

-----------------------------------------------------------------------------
(* Backoff of fetch_with_retry (SpecRetry) *)

\* the attempts the call has started: those that ended and the one under way
\* or cancelled
Attempts == Len(calls) + (IF pc \in {"get", "cancelled"} THEN 1 ELSE 0)

\* C18: fetch_with_retry never waits after its final attempt: it goes to
\* sleep only when another attempt is still to come, no sleep follows attempt
\* number max_retries, and a call that has ended after k attempts has slept
\* at most k-1 times, never after the last of them.
C18_NoSleepAfterFinalAttempt ==
    /\ pc = "sleep" => attempt + 1 < max_retries
    /\ \A k \in 1..Len(sleeps) : sleeps[k].after < max_retries
    /\ Len(sleeps) <= Len(calls)
    /\ pc \in {"done", "cancelled"} =>
           /\ Attempts >= 1 => Len(sleeps) <= Attempts - 1
           /\ \A k \in 1..Len(sleeps) : sleeps[k].after < Attempts

\* C18's case: every attempt raised, the call slept between them and returned
\* after the last one without sleeping
C18_Witness ==
    /\ pc = "done"
    /\ max_retries >= 2
    /\ Len(calls) = max_retries
    /\ \A n \in 1..Len(calls) : ~calls[n].client
    /\ Len(sleeps) = max_retries - 1

-----------------------------------------------------------------------------
(* One event loop that runs a fetch_with_retry task and, concurrently, one  *)
(* call of fetch_book_info_async.  A step of a task runs from one await to  *)
(* the next and needs the event loop.                                       *)

\* what the service may answer in this specification
LoopResponses == {Timeout, KeyAbsent, KeyPresent(DuneFragment)}

LoopRetryEnter == LoopFree("retry") /\ RetryEnter
LoopRetryAttempt(r) == LoopFree("retry") /\ RetryAttempt(r)
LoopRetryCancelled == LoopFree("retry") /\ RetryCancelled
LoopRetryClientError == LoopFree("retry") /\ RetryClientError
LoopRetrySleep == LoopFree("retry") /\ RetrySleep
LoopRetryExhausted == LoopFree("retry") /\ RetryExhausted
LoopAsyncEnter == LoopFree("fetch") /\ AsyncEnter
LoopCallAsync == LoopFree("fetch") /\ CallAsync

InitLoop ==
    /\ isbn \in Keys
    /\ max_retries \in 0..MaxRetries
    /\ delay \in 1..MaxDelay
    /\ delay0 = delay
    /\ attempt = 0
    /\ pc = "loop"
    /\ retval = None
    /\ calls = <<>>
    /\ sleeps = <<>>
    /\ open_sessions = 0
    /\ opened = 0
    /\ loop_holder = "none"
    /\ fn = "none"
    /\ fn_isbn \in Keys
    /\ fn_response \in LoopResponses
    /\ fn_out = Return(None)
    /\ fn_sessions = 0
    /\ fn_while = "idle"
    /\ BatchIdle
    /\ BookIdle
    /\ LibraryIdle
    /\ StoreIdle

NextLoop ==
    \/ LoopRetryEnter /\ UNCHANGED <<batchVars, fetchVars, bookVars, libVars, storeVars>>
    \/ \E r \in LoopResponses : LoopRetryAttempt(r) /\ UNCHANGED <<batchVars, fetchVars, bookVars, libVars, storeVars>>
    \/ LoopRetryCancelled /\ UNCHANGED <<batchVars, fetchVars, bookVars, libVars, storeVars>>
    \/ LoopRetryClientError /\ UNCHANGED <<batchVars, fetchVars, bookVars, libVars, storeVars>>
    \/ LoopRetrySleep /\ UNCHANGED <<batchVars, fetchVars, bookVars, libVars, storeVars>>
    \/ LoopRetryExhausted /\ UNCHANGED <<batchVars, fetchVars, bookVars, libVars, storeVars>>
    \/ LoopAsyncEnter /\ UNCHANGED <<retryVars, batchVars, bookVars, libVars, storeVars>>
    \/ LoopCallAsync /\ UNCHANGED <<retryVars, batchVars, bookVars, libVars, storeVars>>

SpecLoop == InitLoop /\ [][NextLoop]_vars

\* the attempts in which a session was opened
SessionAttempts ==
    Cardinality({n \in 1..Len(calls) : calls[n].client})
        + (IF pc \in {"get", "cancelled"} THEN 1 ELSE 0)

\* C19: every session a fetch opens is released on every exit path: each
\* attempt of fetch_with_retry that builds its client opens one session, the
\* session is open only while get_book_by_isbn is awaited and is closed
\* before the next attempt, the sleep, the return or the cancellation; the
\* client of fetch_book_info_async is open only while its request is awaited
\* and closed when the function has returned.
C19_SessionsReleased ==
    /\ open_sessions = (IF pc = "get" THEN 1 ELSE 0)
    /\ opened = SessionAttempts
    /\ fn_sessions = (IF fn = "async_open" THEN 1 ELSE 0)

\* C19's case: attempts that returned nothing, then one that returned the
\* record, and a fetch_book_info_async that returned: nothing is left open
C19_Witness ==
    /\ pc = "done"
    /\ opened >= 2
    /\ retval.tag = "dict"
    /\ open_sessions = 0
    /\ fn = "async"
    /\ fn_sessions = 0

\* C20: while fetch_with_retry is suspended in its backoff sleep, a pending
\* fetch_book_info_async on the same event loop can take its next step:
\* start its request, or receive the answer and return.
C20_BackoffDoesNotBlock ==
    pc = "sleep" =>
        /\ fn = "none" => ENABLED LoopAsyncEnter
        /\ fn = "async_open" => ENABLED LoopCallAsync

\* C20's case: the other fetch returned its record while fetch_with_retry
\* was asleep, and fetch_with_retry is asleep still
C20_Witness ==
    /\ pc = "sleep"
    /\ fn = "async"
    /\ fn_while = "sleep"
    /\ fn_out.value.tag = "dict"

-----------------------------------------------------------------------------
(* An entry that is no mapping (SpecFetch) *)

\* the response holds the key, and its entry is malformed at the root
MalformedRoot(r) == Classify(r) = "Present" /\ ~r.entry.is_mapping

\* C21: when the entry for the key is no mapping, the fetch ends with a
\* failure for that key: no exception leaves the fetcher, no record is
\* returned, and the result differs from the one for a key the service does
\* not have.
C21_MalformedRootIsParseError ==
    (fn \in {"async", "api"} /\ MalformedRoot(fn_response)) =>
        /\ ~fn_out.raised
        /\ fn_out.value.tag # "dict"
        /\ fn_out # Fetcher(fn, KeyAbsent, fn_isbn)

-----------------------------------------------------------------------------
(* learn/06_fastapi_web_service.py: the BookStore behind the endpoints     *)
(* POST /books, PUT /books/{book_id} and DELETE /books/{book_id}.  The      *)
(* endpoints are coroutines without an await, so each request runs to its  *)
(* end before the next one starts.  The store starts as BookStore() leaves *)
(* it; the startup event fills it through add_book like any other client.  *)

StoreTitles == {"Python Crash Course", "Fluent Python"}
StoreAuthors == {"Eric Matthes", "Luciano Ramalho"}
StoreIsbns == {"978-1593276034", "978-1491946008"}

\* an Optional field of BookUpdate that was not given (None)
NoField == "<None>"

\* the bodies of the requests: BookCreate and BookUpdate
Creates == [title : StoreTitles, author : StoreAuthors, isbn : StoreIsbns]
Updates ==
    [title : StoreTitles \cup {NoField}, author : StoreAuthors \cup {NoField},
     isbn : StoreIsbns \cup {NoField}]

\* BookResponse(id=..., title=..., author=..., isbn=...)
BookResponse(book_id, title, author, isbn_no) ==
    [tag |-> "BookResponse", id |-> book_id, title |-> title,
     author |-> author, isbn |-> isbn_no]

\* the position of the first book with that id, 0 if there is none
IndexOfId(bks, book_id) ==
    IF \E i \in 1..Len(bks) : bks[i].id = book_id
    THEN CHOOSE i \in 1..Len(bks) :
             bks[i].id = book_id /\ \A j \in 1..(i - 1) : bks[j].id # book_id
    ELSE 0

\* the position of the first book with that isbn, 0 if there is none
IndexOfIsbn(bks, isbn_no) ==
    IF \E i \in 1..Len(bks) : bks[i].isbn = isbn_no
    THEN CHOOSE i \in 1..Len(bks) :
             bks[i].isbn = isbn_no /\ \A j \in 1..(i - 1) : bks[j].isbn # isbn_no
    ELSE 0

\* BookStore.get_book_by_id
get_book_by_id(bks, book_id) ==
    LET i == IndexOfId(bks, book_id)
    IN  IF i = 0 THEN None ELSE bks[i]

\* BookStore.find_by_isbn
find_by_isbn(bks, isbn_no) ==
    LET i == IndexOfIsbn(bks, isbn_no)
    IN  IF i = 0 THEN None ELSE bks[i]

\* What a method does: how it ends, self.books and self.next_id after it.

\* an add_book that numbers the book by the size of the list
BookStore_add_book_by_count(bks, nid, data) ==
    IF Truthy(find_by_isbn(bks, data.isbn))
    THEN [out |-> Raise("ValueError"), books |-> bks, next_id |-> nid]
    ELSE LET book == BookResponse(Len(bks) + 1, data.title, data.author, data.isbn)
         IN  [out |-> Return(book), books |-> Append(bks, book), next_id |-> nid + 1]

\* BookStore.add_book
BookStore_add_book(bks, nid, data) ==
    IF Truthy(find_by_isbn(bks, data.isbn))
    THEN [out |-> Raise("ValueError"), books |-> bks, next_id |-> nid]
    ELSE LET book == BookResponse(nid, data.title, data.author, data.isbn)
         IN  [out |-> Return(book), books |-> Append(bks, book), next_id |-> nid + 1]

\* the book after `if book_data.title is not None: book.title = ...` and the
\* same for author (lines 108-111)
WithTitleAndAuthor(book, data) ==
    [book EXCEPT !.title = IF data.title # NoField THEN data.title ELSE @,
                 !.author = IF data.author # NoField THEN data.author ELSE @]

\* an update_book that assigns the isbn without looking for its owner
BookStore_update_book_unchecked(bks, book_id, data) ==
    LET i == IndexOfId(bks, book_id)
    IN  IF i = 0 THEN [out |-> Return(None), books |-> bks]
        ELSE LET book == WithTitleAndAuthor(bks[i], data)
                 final == IF data.isbn # NoField
                          THEN [book EXCEPT !.isbn = data.isbn] ELSE book
             IN  [out |-> Return(final), books |-> [bks EXCEPT ![i] = final]]

\* BookStore.update_book.  book is the object in the list: an assignment to
\* its attribute is a change of the list's element, made when the line runs.
BookStore_update_book(bks, book_id, data) ==
    LET i == IndexOfId(bks, book_id)
    IN  IF i = 0 THEN [out |-> Return(None), books |-> bks]
        ELSE LET book == WithTitleAndAuthor(bks[i], data)
                 assigned == [bks EXCEPT ![i] = book]
             IN  IF data.isbn = NoField
                 THEN [out |-> Return(book), books |-> assigned]
                 ELSE LET existing == find_by_isbn(assigned, data.isbn)
                      IN  IF Truthy(existing) /\ existing.id # book_id
                          THEN [out |-> Raise("ValueError"), books |-> assigned]
                          ELSE LET final == [book EXCEPT !.isbn = data.isbn]
                               IN  [out |-> Return(final),
                                    books |-> [bks EXCEPT ![i] = final]]

\* BookStore.delete_book
BookStore_delete_book(bks, book_id) ==
    LET book == get_book_by_id(bks, book_id)
    IN  IF Truthy(book)
        THEN [ret |-> TRUE, books |-> ListRemove(bks, book)]
        ELSE [ret |-> FALSE, books |-> bks]

\* POST /books: create_book
StoreAdd(data) ==
    /\ next_id <= MaxId
    /\ LET r == BookStore_add_book(st_books, next_id, data)
       IN  /\ st_books' = r.books
           /\ next_id' = r.next_id
           /\ st_last' = [op |-> "add", id |-> 0, data |-> data,
                          raised |-> r.out.raised,
                          status |-> IF r.out.raised THEN 400 ELSE 201]
    /\ st_prev' = st_books
    /\ st_prev_next' = next_id
    /\ UNCHANGED st_freed

\* PUT /books/{book_id}: update_book
StoreUpdate(book_id, data) ==
    /\ LET r == BookStore_update_book(st_books, book_id, data)
       IN  /\ st_books' = r.books
           /\ st_last' = [op |-> "update", id |-> book_id, data |-> data,
                          raised |-> r.out.raised,
                          status |-> IF r.out.raised THEN 400
                                     ELSE IF ~Truthy(r.out.value) THEN 404
                                     ELSE 200]
    /\ st_prev' = st_books
    /\ st_prev_next' = next_id
    /\ UNCHANGED <<next_id, st_freed>>

\* DELETE /books/{book_id}: delete_book
StoreDelete(book_id) ==
    /\ LET r == BookStore_delete_book(st_books, book_id)
       IN  /\ st_books' = r.books
           /\ st_last' = [op |-> "delete", id |-> book_id, data |-> NoField,
                          raised |-> FALSE,
                          status |-> IF r.ret THEN 200 ELSE 404]
           /\ st_freed' = IF r.ret THEN st_freed \cup {book_id} ELSE st_freed
    /\ st_prev' = st_books
    /\ st_prev_next' = next_id
    /\ UNCHANGED next_id

\* BookStore.__init__
InitStore ==
    /\ st_books = <<>>
    /\ next_id = 1
    /\ st_last = NoRequest
    /\ st_prev = <<>>
    /\ st_prev_next = 1
    /\ st_freed = {}
    /\ RetryIdle
    /\ BatchIdle
    /\ FetchIdle
    /\ BookIdle
    /\ LibraryIdle

NextStore ==
    \/ \E d \in Creates : StoreAdd(d) /\ UNCHANGED <<retryVars, batchVars, fetchVars, bookVars, libVars>>
    \/ \E i \in 1..MaxId, d \in Updates : StoreUpdate(i, d) /\ UNCHANGED <<retryVars, batchVars, fetchVars, bookVars, libVars>>
    \/ \E i \in 1..MaxId : StoreDelete(i) /\ UNCHANGED <<retryVars, batchVars, fetchVars, bookVars, libVars>>

SpecStore == InitStore /\ [][NextStore]_vars

\* C22: no two books of the store have the same isbn, whatever requests
\* were made, those answered with an error included.
C22_StoreIsbnsUnique == UniqueIsbns(st_books)

\* C22's case: after a deletion, an update was refused because its isbn
\* belongs to another book
C22_Witness ==
    /\ st_last.op = "update"
    /\ st_last.raised
    /\ Len(st_books) = 2
    /\ st_freed # {}

\* C23: an update refused with ValueError, because the isbn it asks for
\* belongs to another book, leaves the store as it was.
C23_UpdateAtomicOnError ==
    (st_last.op = "update" /\ st_last.raised) => st_books = st_prev

\* C24: the ids of the stored books are pairwise distinct and smaller than
\* next_id; next_id never decreases, grows by one with every book added and
\* stays as it is when add_book refuses, on update_book and on delete_book;
\* the id of a deleted book is never given to another book.
C24_IdsUniqueNeverReused ==
    /\ \A i, j \in 1..Len(st_books) : st_books[i].id = st_books[j].id => i = j
    /\ \A i \in 1..Len(st_books) :
          /\ st_books[i].id >= 1
          /\ st_books[i].id < next_id
          /\ st_books[i].id \notin st_freed
    /\ next_id >= st_prev_next
    /\ (st_last.op = "add" /\ ~st_last.raised) =>
           /\ next_id = st_prev_next + 1
           /\ st_books[Len(st_books)].id = st_prev_next
    /\ (st_last.op = "add" /\ st_last.raised) => next_id = st_prev_next
    /\ st_last.op \in {"update", "delete"} => next_id = st_prev_next

\* C24's case: a book added after a deletion gets a new id
C24_Witness ==
    /\ st_last.op = "add"
    /\ ~st_last.raised
    /\ st_freed = {1}
    /\ Len(st_books) = 2
    /\ st_books[2].id = 3

====
